---- MODULE Spec2Model ----
(***************************************************************************)
(* Session and rate-limit management of backend/main.py.                   *)
(*                                                                         *)
(* The program has two threads.  The event-loop thread runs the request    *)
(* coroutines: a coroutine runs without interruption by another coroutine  *)
(* from one await to the next (a "segment").  The daemon thread runs       *)
(* cleanup_sessions; it may be scheduled between any two statements of the *)
(* event-loop thread, so a segment is modelled as a sequence of steps, one *)
(* per statement that reads or writes the shared dictionaries.             *)
(*                                                                         *)
(* The clock counts units of 30 minutes.  A segment is straight-line code: *)
(* the clock passes at most one unit boundary while a segment runs.        *)
(***************************************************************************)
EXTENDS Integers, Sequences, FiniteSets, TLC

VARIABLES
    now,          \* datetime.now(), in clock units
    sessions,     \* the dict sessions: token -> session object (a heap address)
    heap,         \* the session dicts that are still referenced: address -> fields
    ip_sessions,  \* the dict ip_sessions: client address -> list of tokens
    pc,           \* where each request handler stands
    req,          \* the request each handler serves: path, client address, bearer token
    ses,          \* the handler's local variable session (a heap address, 0: unset)
    vnow,         \* the clock value the handler's validation read
    result,       \* the outcome of the handler's last request
    segtick,      \* the clock has advanced during the running segment
    rpc,          \* where the cleanup thread stands
    r_now,        \* cleanup_sessions: now
    r_size,       \* size of sessions when the iteration of line 73 began
    r_pos,        \* the last token the iteration of line 73 returned
    r_expired,    \* cleanup_sessions: expired_tokens
    r_del,        \* how many of expired_tokens the loop of line 83 has deleted
    used,         \* the tokens uuid4 has produced so far
    hist          \* per session object and count key: calls and admissions in the
                  \* current quota window

vars == <<now, sessions, heap, ip_sessions, pc, req, ses, vnow, result, segtick,
          rpc, r_now, r_size, r_pos, r_expired, r_del, used, hist>>

-----------------------------------------------------------------------------
(* Program constants *)

\* timedelta(hours=1), in clock units
Hour == 2
\* the cap of check_max_sessions
MaxSessionsPerIp == 3
\* the limit the three gated endpoints pass to check_rate_limit
RequestsPerHour == 50

StartPath == "start_session"
Endpoints == {"generate_scene", "analyze_scene", "validate_challenge"}

\* f"{endpoint}_count"
CountKey(endpoint) ==
    CASE endpoint = "generate_scene" -> "generate_scene_count"
      [] endpoint = "analyze_scene" -> "analyze_scene_count"
      [] endpoint = "validate_challenge" -> "validate_challenge_count"

\* {'generate_scene': 0, 'analyze_scene': 0, 'validate_challenge': 0}
ZeroCounts == [k \in Endpoints |-> 0]

-----------------------------------------------------------------------------
(* Dictionaries and lists *)

\* d.get(k, default)
Get(d, k, default) == IF k \in DOMAIN d THEN d[k] ELSE default

\* d[k] = v
Put(d, k, v) == [x \in DOMAIN d \cup {k} |-> IF x = k THEN v ELSE d[x]]

\* del d[k]
Del(d, k) == [x \in DOMAIN d \ {k} |-> d[x]]

\* token in ip_list
InList(l, t) == \E i \in 1..Len(l) : l[i] = t

\* ip_list.remove(token): removes the first occurrence
ListRemove(l, t) ==
    LET i == CHOOSE j \in 1..Len(l) : l[j] = t /\ \A k \in 1..(j - 1) : l[k] # t
    IN  [k \in 1..(Len(l) - 1) |-> IF k < i THEN l[k] ELSE l[k + 1]]

SetMin(S) == CHOOSE x \in S : \A y \in S : x <= y

\* the address of a new object
NewAddr == SetMin((1..(Cardinality(DOMAIN heap) + 1)) \ DOMAIN heap)

\* reference counting: an object lives while sessions or a handler's local
\* variable refers to it
Collect(h, s, l) ==
    LET live == {s[t] : t \in DOMAIN s} \cup {l[x] : x \in DOMAIN l}
    IN  [a \in DOMAIN h \cap live |-> h[a]]

-----------------------------------------------------------------------------
(* check_rate_limit, lines 134-147 *)

\* line 144 with > for >=
check_rate_limit_strict(session, endpoint, requests_per_hour, t) ==
    LET window_start == t - Hour
        reset == session.window_start < window_start
        s1 == IF reset
              THEN [session EXCEPT !.window_start = t, !.request_counts = ZeroCounts]
              ELSE session
        count_key == CountKey(endpoint)
        count == Get(s1.request_counts, count_key, 0)
    IN  IF count > requests_per_hour
        THEN [session |-> s1, raised |-> TRUE, reset |-> reset]
        ELSE [session |-> [s1 EXCEPT !.request_counts =
                                  Put(s1.request_counts, count_key, count + 1)],
              raised |-> FALSE, reset |-> reset]

\* line 147 writing the key of the initial dict instead of count_key
check_rate_limit_wrong_key(session, endpoint, requests_per_hour, t) ==
    LET window_start == t - Hour
        reset == session.window_start < window_start
        s1 == IF reset
              THEN [session EXCEPT !.window_start = t, !.request_counts = ZeroCounts]
              ELSE session
        count_key == CountKey(endpoint)
        count == Get(s1.request_counts, count_key, 0)
    IN  IF count >= requests_per_hour
        THEN [session |-> s1, raised |-> TRUE, reset |-> reset]
        ELSE [session |-> [s1 EXCEPT !.request_counts =
                                  Put(s1.request_counts, endpoint, count + 1)],
              raised |-> FALSE, reset |-> reset]

\* line 147 moved before the test of line 144: the call is counted first
check_rate_limit_count_first(session, endpoint, requests_per_hour, t) ==
    LET window_start == t - Hour
        reset == session.window_start < window_start
        s1 == IF reset
              THEN [session EXCEPT !.window_start = t, !.request_counts = ZeroCounts]
              ELSE session
        count_key == CountKey(endpoint)
        count == Get(s1.request_counts, count_key, 0)
        s2 == [s1 EXCEPT !.request_counts = Put(s1.request_counts, count_key, count + 1)]
    IN  [session |-> s2, raised |-> count >= requests_per_hour, reset |-> reset]

\* line 147 storing a fresh dict that holds only the incremented count
check_rate_limit_zero_others(session, endpoint, requests_per_hour, t) ==
    LET window_start == t - Hour
        reset == session.window_start < window_start
        s1 == IF reset
              THEN [session EXCEPT !.window_start = t, !.request_counts = ZeroCounts]
              ELSE session
        count_key == CountKey(endpoint)
        count == Get(s1.request_counts, count_key, 0)
    IN  IF count >= requests_per_hour
        THEN [session |-> s1, raised |-> TRUE, reset |-> reset]
        ELSE [session |-> [s1 EXCEPT !.request_counts =
                                  Put(ZeroCounts, count_key, count + 1)],
              raised |-> FALSE, reset |-> reset]

check_rate_limit(session, endpoint, requests_per_hour, t) ==
    LET window_start == t - Hour
        reset == session.window_start < window_start
        s1 == IF reset
              THEN [session EXCEPT !.window_start = t, !.request_counts = ZeroCounts]
              ELSE session
        count_key == CountKey(endpoint)
        count == Get(s1.request_counts, count_key, 0)
    IN  IF count >= requests_per_hour
        THEN [session |-> s1, raised |-> TRUE, reset |-> reset]
        ELSE [session |-> [s1 EXCEPT !.request_counts =
                                  Put(s1.request_counts, count_key, count + 1)],
              raised |-> FALSE, reset |-> reset]

-----------------------------------------------------------------------------
(* State after module import: empty dictionaries, the cleanup thread asleep *)

NoRequest == [path |-> "none", ip |-> "none", token |-> 0]

InitOf(H) ==
    /\ now = 0
    /\ sessions = <<>>
    /\ heap = <<>>
    /\ ip_sessions = <<>>
    /\ pc = [h \in H |-> "idle"]
    /\ req = [h \in H |-> NoRequest]
    /\ ses = [h \in H |-> 0]
    /\ vnow = [h \in H |-> 0]
    /\ result = [h \in H |-> "none"]
    /\ segtick = FALSE
    /\ rpc = "sleep"
    /\ r_now = 0
    /\ r_size = 0
    /\ r_pos = 0
    /\ r_expired = <<>>
    /\ r_del = 0
    /\ used = {}
    /\ hist = <<>>

\* the handlers in the middle of a segment: the event loop runs one of them
Running == {h \in DOMAIN pc : pc[h] \in {"s2", "s3", "g2", "rl", "done"}}

\* the local variables that still refer to a session object
Locals(l) == [h \in {x \in DOMAIN l : l[x] # 0} |-> l[h]]

Restrict(f, D) == [x \in DOMAIN f \cap D |-> f[x]]

ZeroHist == [e \in Endpoints |-> [calls |-> 0, allowed |-> 0]]

reaper_vars == <<rpc, r_now, r_size, r_pos, r_expired, r_del>>

\* the handler returns or raises: the outcome is what the response will say
Finish(h, outcome, s2) ==
    /\ pc' = [pc EXCEPT ![h] = "done"]
    /\ result' = [result EXCEPT ![h] = outcome]
    /\ sessions' = s2
    /\ heap' = Collect(heap, s2, Locals(ses))
    /\ hist' = Restrict(hist, DOMAIN heap')
    /\ UNCHANGED <<ses, segtick>>

\* the request is over and its locals die
Forget(h) ==
    /\ pc' = [pc EXCEPT ![h] = "idle"]
    /\ req' = [req EXCEPT ![h] = NoRequest]
    /\ ses' = [ses EXCEPT ![h] = 0]
    /\ vnow' = [vnow EXCEPT ![h] = 0]
    /\ result' = [result EXCEPT ![h] = "none"]
    /\ segtick' = FALSE
    /\ heap' = Collect(heap, sessions, Locals(ses'))
    /\ hist' = Restrict(hist, DOMAIN heap')

\* the response (or the error response of a raised exception) is sent
respond(h) ==
    /\ pc[h] = "done"
    /\ Forget(h)
    /\ UNCHANGED <<now, sessions, ip_sessions, reaper_vars, used>>

-----------------------------------------------------------------------------
(* check_max_sessions, lines 150-159: a request arrives and passes the     *)
(* middleware, which awaits call_next                                      *)

check_max_sessions(h, path, ip, tok) ==
    /\ pc[h] = "idle"
    /\ Running = {}
    /\ req' = [req EXCEPT ![h] = [path |-> path, ip |-> ip, token |-> tok]]
    /\ IF path = StartPath /\ Len(Get(ip_sessions, ip, <<>>)) >= MaxSessionsPerIp
       THEN /\ result' = [result EXCEPT ![h] = "ip_quota"]
            /\ pc' = [pc EXCEPT ![h] = "done"]
       ELSE /\ result' = [result EXCEPT ![h] = "pending"]
            /\ pc' = [pc EXCEPT ![h] = "next"]
    /\ segtick' = FALSE
    /\ UNCHANGED <<now, sessions, heap, ip_sessions, ses, vnow, reaper_vars,
                   used, hist>>

-----------------------------------------------------------------------------
(* start_session, lines 167-192 *)

\* lines 169-182: the session dict is built and stored under its token
start_session_store(h, tok) ==
    /\ pc[h] = "next"
    /\ req[h].path = StartPath
    /\ Running = {}
    /\ LET a == NewAddr
           session == [token |-> tok,
                       ip |-> req[h].ip,
                       created_at |-> now,
                       expires_at |-> now + Hour,
                       request_counts |-> ZeroCounts,
                       window_start |-> now]
           s2 == Put(sessions, tok, a)
       IN  /\ sessions' = s2
           /\ ses' = [ses EXCEPT ![h] = a]
           /\ heap' = Collect(Put(heap, a, session), s2, Locals(ses'))
           /\ hist' = Restrict(Put(hist, a, ZeroHist), DOMAIN heap')
    /\ used' = used \cup {tok}
    /\ pc' = [pc EXCEPT ![h] = "s2"]
    /\ segtick' = FALSE
    /\ UNCHANGED <<now, ip_sessions, req, vnow, result, reaper_vars>>

\* lines 185-186
start_session_track(h) ==
    /\ pc[h] = "s2"
    /\ ip_sessions' = IF req[h].ip \notin DOMAIN ip_sessions
                      THEN Put(ip_sessions, req[h].ip, <<>>)
                      ELSE ip_sessions
    /\ pc' = [pc EXCEPT ![h] = "s3"]
    /\ UNCHANGED <<now, sessions, heap, req, ses, vnow, result, segtick,
                   reaper_vars, used, hist>>

\* lines 187-192: ip_sessions[client_ip] raises KeyError when the cleanup
\* thread has deleted the entry since line 185
start_session_append(h) ==
    /\ pc[h] = "s3"
    /\ LET ip == req[h].ip
           session == heap[ses[h]]
       IN  IF ip \in DOMAIN ip_sessions
           THEN /\ ip_sessions' = Put(ip_sessions, ip,
                                      Append(ip_sessions[ip], session.token))
                /\ Finish(h, "created", sessions)
           ELSE /\ Finish(h, "error", sessions)
                /\ UNCHANGED ip_sessions
    /\ UNCHANGED <<now, req, vnow, reaper_vars, used>>

-----------------------------------------------------------------------------
(* get_session, lines 117-131 *)

\* lines 118-125
get_session_lookup(h) ==
    /\ pc[h] = "next"
    /\ req[h].path \in Endpoints
    /\ Running = {}
    /\ LET token == req[h].token
       IN  IF token = 0
           THEN /\ Finish(h, "missing", sessions)
           ELSE IF token \notin DOMAIN sessions
           THEN /\ Finish(h, "not_found", sessions)
           ELSE /\ ses' = [ses EXCEPT ![h] = sessions[token]]
                /\ pc' = [pc EXCEPT ![h] = "g2"]
                /\ UNCHANGED <<sessions, heap, result, segtick, hist>>
    /\ UNCHANGED <<now, ip_sessions, req, vnow, reaper_vars, used>>

\* lines 127-131, without the test of line 127
get_session_expiry_unchecked(h) ==
    /\ pc[h] = "g2"
    /\ vnow' = [vnow EXCEPT ![h] = now]
    /\ pc' = [pc EXCEPT ![h] = "rl"]
    /\ result' = [result EXCEPT ![h] = "authenticated"]
    /\ UNCHANGED <<now, sessions, heap, ip_sessions, req, ses, segtick,
                   reaper_vars, used, hist>>

\* lines 127-131 with a sliding expiry: a successful validation renews
\* expires_at
get_session_expiry_sliding(h) ==
    /\ pc[h] = "g2"
    /\ vnow' = [vnow EXCEPT ![h] = now]
    /\ LET token == req[h].token
           session == heap[ses[h]]
       IN  IF now > session.expires_at
           THEN IF token \in DOMAIN sessions
                THEN Finish(h, "expired", Del(sessions, token))
                ELSE Finish(h, "error", sessions)
           ELSE /\ pc' = [pc EXCEPT ![h] = "rl"]
                /\ result' = [result EXCEPT ![h] = "authenticated"]
                /\ heap' = Put(heap, ses[h], [session EXCEPT !.expires_at = now + Hour])
                /\ UNCHANGED <<sessions, ses, segtick, hist>>
    /\ UNCHANGED <<now, ip_sessions, req, reaper_vars, used>>

\* lines 127-131: del sessions[token] raises KeyError when the cleanup thread
\* has deleted the token since line 123
get_session_expiry(h) ==
    /\ pc[h] = "g2"
    /\ vnow' = [vnow EXCEPT ![h] = now]
    /\ LET token == req[h].token
           session == heap[ses[h]]
       IN  IF now > session.expires_at
           THEN IF token \in DOMAIN sessions
                THEN Finish(h, "expired", Del(sessions, token))
                ELSE Finish(h, "error", sessions)
           ELSE /\ pc' = [pc EXCEPT ![h] = "rl"]
                /\ result' = [result EXCEPT ![h] = "authenticated"]
                /\ UNCHANGED <<sessions, heap, ses, segtick, hist>>
    /\ UNCHANGED <<now, ip_sessions, req, reaper_vars, used>>

-----------------------------------------------------------------------------
(* The gated endpoints after Depends(get_session): generate_scene lines    *)
(* 196-208, analyze_scene lines 221-253, validate_challenge lines 271-283  *)

\* the quota-window history of a session object after a call
HistAfter(hs, endpoint, r) ==
    LET base == IF r.reset THEN ZeroHist ELSE hs
        e == base[endpoint]
    IN  [base EXCEPT ![endpoint] =
            [calls |-> e.calls + 1,
             allowed |-> IF r.raised THEN e.allowed ELSE e.allowed + 1]]

\* the handler without the raise of check_rate_limit: a refused request goes
\* on to the AI service
gated_endpoint_ungated(h, valid) ==
    /\ pc[h] = "rl"
    /\ LET a == ses[h]
           endpoint == req[h].path
           r == check_rate_limit(heap[a], endpoint, RequestsPerHour, now)
       IN  /\ heap' = Put(heap, a, r.session)
           /\ hist' = Put(hist, a, HistAfter(hist[a], endpoint, r))
           /\ IF ~valid /\ endpoint # "validate_challenge"
              THEN /\ pc' = [pc EXCEPT ![h] = "done"]
                   /\ result' = [result EXCEPT ![h] = "bad_request"]
                   /\ segtick' = segtick
              ELSE /\ pc' = [pc EXCEPT ![h] = "ai"]
                   /\ result' = [result EXCEPT ![h] = "allowed"]
                   /\ segtick' = FALSE
    /\ UNCHANGED <<now, sessions, ip_sessions, req, ses, vnow, reaper_vars, used>>

\* check_rate_limit(session, endpoint, 50), the test of the request body, and
\* the POST to the AI service, which the handler awaits.  valid: the body
\* passes the handler's test (validate_challenge has none)
gated_endpoint(h, valid) ==
    /\ pc[h] = "rl"
    /\ LET a == ses[h]
           endpoint == req[h].path
           r == check_rate_limit(heap[a], endpoint, RequestsPerHour, now)
       IN  /\ heap' = Put(heap, a, r.session)
           /\ hist' = Put(hist, a, HistAfter(hist[a], endpoint, r))
           /\ IF r.raised \/ (~valid /\ endpoint # "validate_challenge")
              THEN /\ pc' = [pc EXCEPT ![h] = "done"]
                   /\ result' = [result EXCEPT ![h] =
                                    IF r.raised THEN "rate_limited" ELSE "bad_request"]
                   /\ segtick' = segtick
              ELSE /\ pc' = [pc EXCEPT ![h] = "ai"]
                   /\ result' = [result EXCEPT ![h] = "allowed"]
                   /\ segtick' = FALSE
    /\ UNCHANGED <<now, sessions, ip_sessions, req, ses, vnow, reaper_vars, used>>

\* the AI service answers: the handler returns its response or raises 500
ai_response(h, ok) ==
    /\ pc[h] = "ai"
    /\ Running = {}
    /\ Finish(h, IF ok THEN "ok" ELSE "ai_failed", sessions)
    /\ UNCHANGED <<now, ip_sessions, req, vnow, reaper_vars, used>>

\* a disconnect that also takes effect between lines 182 and 185
cancel_midway(h) ==
    /\ pc[h] \in {"next", "s2", "ai"}
    /\ Forget(h)
    /\ UNCHANGED <<now, sessions, ip_sessions, reaper_vars, used>>

\* the client disconnects while the request is suspended in an await
cancel(h) ==
    /\ pc[h] \in {"next", "ai"}
    /\ Running = {}
    /\ Forget(h)
    /\ UNCHANGED <<now, sessions, ip_sessions, reaper_vars, used>>

-----------------------------------------------------------------------------
(* The clock *)

Tick(maxtime) ==
    /\ now < maxtime
    /\ Running = {} \/ ~segtick
    /\ now' = now + 1
    /\ segtick' = (Running # {})
    /\ UNCHANGED <<sessions, heap, ip_sessions, pc, req, ses, vnow, result,
                   reaper_vars, used, hist>>

-----------------------------------------------------------------------------
(* cleanup_sessions, lines 68-84.  Tokens are stored in the order uuid4     *)
(* produced them, which is the order the dict iterates in.                  *)

handler_vars == <<pc, req, ses, vnow, result, segtick>>

\* lines 70-73: sleep ends, now is read, the iteration over sessions begins
cleanup_wake ==
    /\ rpc = "sleep"
    /\ rpc' = "scan"
    /\ r_now' = now
    /\ r_size' = Cardinality(DOMAIN sessions)
    /\ r_pos' = 0
    /\ r_expired' = <<>>
    /\ r_del' = 0
    /\ UNCHANGED <<now, sessions, heap, ip_sessions, handler_vars, used, hist>>

\* lines 77-81 without lines 80-81
untrack_keep_empty(ips, ip, token) ==
    LET ip_list == Get(ips, ip, <<>>)
    IN  IF InList(ip_list, token)
        THEN Put(ips, ip, ListRemove(ip_list, token))
        ELSE ips

\* lines 77-81
untrack(ips, ip, token) ==
    LET ip_list == Get(ips, ip, <<>>)
    IN  IF InList(ip_list, token)
        THEN LET l2 == ListRemove(ip_list, token)
             IN  IF l2 = <<>> THEN Del(ips, ip) ELSE Put(ips, ip, l2)
        ELSE ips

\* the thread's locals when it sleeps or has died: their values are not read
\* again (lines 71-73 set them afresh)
Rest(state) ==
    /\ rpc' = state
    /\ r_now' = 0
    /\ r_size' = 0
    /\ r_pos' = 0
    /\ r_expired' = <<>>
    /\ r_del' = 0

\* lines 73-81, one round of the loop: the iterator raises RuntimeError when
\* the dict has changed size since the loop began
cleanup_scan ==
    /\ rpc = "scan"
    /\ LET rest == {t \in DOMAIN sessions : t > r_pos}
       IN  IF Cardinality(DOMAIN sessions) # r_size
           THEN /\ Rest("dead")
                /\ UNCHANGED ip_sessions
           ELSE IF rest = {}
           THEN /\ IF r_expired = <<>>
                   THEN Rest("sleep")
                   ELSE /\ rpc' = "delete"
                        /\ UNCHANGED <<r_now, r_size, r_pos, r_expired, r_del>>
                /\ UNCHANGED ip_sessions
           ELSE LET token == SetMin(rest)
                    session == heap[sessions[token]]
                IN  /\ rpc' = rpc
                    /\ r_pos' = token
                    /\ IF r_now > session.expires_at
                       THEN /\ r_expired' = Append(r_expired, token)
                            /\ ip_sessions' = untrack(ip_sessions, session.ip, token)
                       ELSE UNCHANGED <<r_expired, ip_sessions>>
                    /\ UNCHANGED <<r_now, r_size, r_del>>
    /\ UNCHANGED <<now, sessions, heap, handler_vars, used, hist>>

\* lines 83-84, one round of the loop: del raises KeyError when a handler
\* has deleted the token since the scan
cleanup_delete ==
    /\ rpc = "delete"
    /\ r_del < Len(r_expired)
    /\ LET token == r_expired[r_del + 1]
       IN  IF token \in DOMAIN sessions
           THEN /\ sessions' = Del(sessions, token)
                /\ heap' = Collect(heap, sessions', Locals(ses))
                /\ hist' = Restrict(hist, DOMAIN heap')
                /\ r_del' = r_del + 1
                /\ UNCHANGED <<rpc, r_now, r_size, r_pos, r_expired>>
           ELSE /\ Rest("dead")
                /\ UNCHANGED <<sessions, heap, hist>>
    /\ UNCHANGED <<now, ip_sessions, handler_vars, used>>

\* the loop of line 83 ends and the thread sleeps again (line 70)
cleanup_sleep ==
    /\ rpc = "delete"
    /\ r_del = Len(r_expired)
    /\ Rest("sleep")
    /\ UNCHANGED <<now, sessions, heap, ip_sessions, handler_vars, used, hist>>

-----------------------------------------------------------------------------
(* uuid.uuid4(): a token never produced before (the next one of T), or, when *)
(* the generator repeats itself, any token of T                              *)

Unique(T) == IF T \ used = {} THEN {} ELSE {SetMin(T \ used)}

\* gated requests are sent while the session has served fewer than n calls of
\* the endpoint in its quota window
Budget(path, tok, n) ==
    (path \in Endpoints /\ tok \in DOMAIN sessions)
        => hist[sessions[tok]][path].calls < n

-----------------------------------------------------------------------------
(* Building blocks of the next-state relations: H handlers, P paths,       *)
(* A client addresses, G what uuid4 may return, n the call budget          *)

\* a request is served by the first free handler
Free(H) == LET idle == {h \in H : pc[h] = "idle"}
           IN  IF idle = {} THEN {} ELSE {SetMin(idle)}

\* the Authorization headers clients send: none (0), or a token
Bearer(T) == {0} \cup T

Request(H, P, A, T, n) ==
    \E h \in Free(H), path \in P, ip \in A, tok \in Bearer(T) :
        /\ path = StartPath => tok = 0
        /\ Budget(path, tok, n)
        /\ check_max_sessions(h, path, ip, tok)

StartSession(H, G) ==
    \E h \in H :
        \/ \E tok \in G : start_session_store(h, tok)
        \/ start_session_track(h)
        \/ start_session_append(h)

GetSession(H) ==
    \E h \in H :
        \/ get_session_lookup(h)
        \/ get_session_expiry(h)

Gated(H) ==
    \E h \in H :
        \/ \E valid \in BOOLEAN : gated_endpoint(h, valid)
        \/ \E ok \in BOOLEAN : ai_response(h, ok)

Cancel(H) == \E h \in H : cancel(h)

Respond(H) == \E h \in H : respond(h)

Cleanup == cleanup_wake \/ cleanup_scan \/ cleanup_delete \/ cleanup_sleep

-----------------------------------------------------------------------------
(* Session life cycle: one client address, one request at a time, sessions  *)
(* created, validated, expired and cleaned up                               *)

MaxTokens == 2
MaxTime == 3
MaxCalls == 1

Tokens == 1..MaxTokens

Init == InitOf({1})

Next ==
    \/ Request({1}, {StartPath, "generate_scene"}, {"a"}, Tokens, MaxCalls)
    \/ StartSession({1}, Unique(Tokens))
    \/ GetSession({1})
    \/ Gated({1})
    \/ Cancel({1})
    \/ Respond({1})
    \/ Tick(MaxTime)
    \/ Cleanup

Spec == Init /\ [][Next]_vars

\* the cleanup thread is a thread of its own: the scheduler lets it run
SpecLive == Init /\ [][Next]_vars /\ WF_vars(Cleanup)

-----------------------------------------------------------------------------
(* Rate limiting: concurrent requests of one session for one endpoint, up   *)
(* to and beyond its hourly limit.  cleanup_sessions reads and writes no    *)
(* request count and no window start; its interleavings with validation are *)
(* part of Spec                                                             *)

RateHandlers == 2
RateMaxTime == 3
RateMaxCalls == 52

InitRate == InitOf(1..RateHandlers)

NextRate ==
    \/ Request(1..RateHandlers, {StartPath, "generate_scene"}, {"a"}, {1}, RateMaxCalls)
    \/ StartSession(1..RateHandlers, Unique({1}))
    \/ GetSession(1..RateHandlers)
    \/ Gated(1..RateHandlers)
    \/ Cancel(1..RateHandlers)
    \/ Respond(1..RateHandlers)
    \/ Tick(RateMaxTime)

SpecRate == InitRate /\ [][NextRate]_vars

-----------------------------------------------------------------------------
(* The per-address cap: concurrent start-session requests of one address    *)

CapHandlers == 2
CapTokens == 4
CapMaxTime == 3

InitCap == InitOf(1..CapHandlers)

NextCap ==
    \/ Request(1..CapHandlers, {StartPath}, {"a"}, {}, 0)
    \/ StartSession(1..CapHandlers, Unique(1..CapTokens))
    \/ Cancel(1..CapHandlers)
    \/ Respond(1..CapHandlers)
    \/ Tick(CapMaxTime)
    \/ Cleanup

SpecCap == InitCap /\ [][NextCap]_vars

-----------------------------------------------------------------------------
(* The quota of an address over the life of its sessions                    *)

QuotaTokens == 3
QuotaMaxTime == 3

InitQuota == InitOf({1})

NextQuota ==
    \/ Request({1}, {StartPath, "generate_scene"}, {"a"}, 1..QuotaTokens, 1)
    \/ StartSession({1}, Unique(1..QuotaTokens))
    \/ GetSession({1})
    \/ Gated({1})
    \/ Cancel({1})
    \/ Respond({1})
    \/ Tick(QuotaMaxTime)
    \/ Cleanup

SpecQuota == InitQuota /\ [][NextQuota]_vars

-----------------------------------------------------------------------------
(* The cleanup thread over the sessions of two addresses                    *)

ReapTokens == 2
ReapMaxTime == 3

InitReap == InitOf({1})

NextReap ==
    \/ Request({1}, {StartPath}, {"a", "b"}, {}, 0)
    \/ StartSession({1}, Unique(1..ReapTokens))
    \/ Cancel({1})
    \/ Respond({1})
    \/ Tick(ReapMaxTime)
    \/ Cleanup

SpecReap == InitReap /\ [][NextReap]_vars

-----------------------------------------------------------------------------
(* A token generator that repeats itself                                    *)

CollideTokens == 2
CollideHandlers == 2

InitCollide == InitOf(1..CollideHandlers)

NextCollide ==
    \/ Request(1..CollideHandlers, {StartPath}, {"a"}, {}, 0)
    \/ StartSession(1..CollideHandlers, 1..CollideTokens)
    \/ Cancel(1..CollideHandlers)
    \/ Respond(1..CollideHandlers)

SpecCollide == InitCollide /\ [][NextCollide]_vars

-----------------------------------------------------------------------------
(* The three gated endpoints of one session: validation, rate limit up to   *)
(* and beyond the hourly limit of generate_scene, and the AI call.  The     *)
(* cleanup thread does not run during these requests                        *)

GateMaxTime == 3
GateMaxCalls == 52
GateOtherCalls == 1

InitGate == InitOf({1})

NextGate ==
    \/ Request({1}, {StartPath, "generate_scene"}, {"a"}, {1}, GateMaxCalls)
    \/ Request({1}, {"analyze_scene", "validate_challenge"}, {"a"}, {1}, GateOtherCalls)
    \/ StartSession({1}, Unique({1}))
    \/ GetSession({1})
    \/ Gated({1})
    \/ Cancel({1})
    \/ Respond({1})
    \/ Tick(GateMaxTime)

SpecGate == InitGate /\ [][NextGate]_vars

-----------------------------------------------------------------------------
(* Two endpoints called on the sessions of one address, one request at a    *)
(* time, one call per session and endpoint in a window.  The cleanup thread *)
(* does not run during these requests                                       *)

FrameTokens == 2
FrameMaxTime == 3

InitFrame == InitOf({1})

NextFrame ==
    \/ Request({1}, {StartPath, "generate_scene", "analyze_scene"}, {"a"},
               1..FrameTokens, 1)
    \/ StartSession({1}, Unique(1..FrameTokens))
    \/ GetSession({1})
    \/ Gated({1})
    \/ Cancel({1})
    \/ Respond({1})
    \/ Tick(FrameMaxTime)

SpecFrame == InitFrame /\ [][NextFrame]_vars

-----------------------------------------------------------------------------
(* Clients that disconnect: concurrent start-session and validate-challenge *)
(* requests, with an AI service that does not answer before the client      *)
(* gives up.  The requests are made within one clock unit and the cleanup   *)
(* thread does not run during them                                          *)

CancelHandlers == 2
CancelTokens == 2

InitCancel == InitOf(1..CancelHandlers)

NextCancel ==
    \/ Request(1..CancelHandlers, {StartPath, "validate_challenge"}, {"a"},
               1..CancelTokens, 1)
    \/ StartSession(1..CancelHandlers, Unique(1..CancelTokens))
    \/ GetSession(1..CancelHandlers)
    \/ \E h \in 1..CancelHandlers, valid \in BOOLEAN : gated_endpoint(h, valid)
    \/ Cancel(1..CancelHandlers)
    \/ Respond(1..CancelHandlers)

SpecCancel == InitCancel /\ [][NextCancel]_vars

-----------------------------------------------------------------------------
(* What the claims speak of *)

Min(a, b) == IF a <= b THEN a ELSE b

AllAddresses == {"a", "b"}

\* the tokens listed under an address
IndexTokens(A) ==
    LET l == Get(ip_sessions, A, <<>>) IN {l[i] : i \in 1..Len(l)}

\* the tokens whose stored session came from an address
StoreTokens(A) == {t \in DOMAIN sessions : heap[sessions[t]].ip = A}

\* no handler is inside a segment and the cleanup thread is not inside a tick
Quiescent == Running = {} /\ rpc \in {"sleep", "dead"}

\* a session's count of an endpoint, as check_rate_limit reads it
StoredCount(session, endpoint) == Get(session.request_counts, CountKey(endpoint), 0)

\* C1: the index entry of every address lists at most 3 tokens, whatever the
\* interleaving of the cap checks and the registrations of concurrent
\* start-session requests
IpCapRespected ==
    \A A \in DOMAIN ip_sessions : Cardinality(IndexTokens(A)) <= MaxSessionsPerIp

\* C3: between operations, a token is listed under address A exactly when
\* the store holds a session of that token that came from A
StoreIndexConsistent ==
    Quiescent => \A A \in AllAddresses : IndexTokens(A) = StoreTokens(A)

\* C4: a start-session request of an address is refused only while the store
\* holds 3 sessions of that address: once one of them has expired and been
\* removed (by a validation or by the cleanup thread) the request succeeds
QuotaRecovers ==
    [][\A h \in DOMAIN pc :
          (pc[h] = "idle" /\ pc'[h] = "done" /\ result'[h] = "ip_quota")
              => Cardinality(StoreTokens(req'[h].ip)) >= MaxSessionsPerIp]_vars

\* C10: start_session never stores a token that uuid4 has produced before,
\* and never replaces the record of a stored token
TokensUnique ==
    [][\A h \in DOMAIN pc :
          (pc[h] = "next" /\ pc'[h] = "s2")
              => LET tok == heap'[ses'[h]].token
                 IN  tok \notin used /\ tok \notin DOMAIN sessions]_vars

\* the window history of the session a handler holds, for the endpoint it serves
HistOf(h) == hist[ses[h]][req[h].path]

\* C5: in every quota window of a session, the first 50 calls of
\* check_rate_limit for an endpoint are allowed and every later call of that
\* window is refused: the admissions are min(calls, 50)
RateLimitWindow ==
    \A a \in DOMAIN hist : \A e \in Endpoints :
        hist[a][e].allowed = Min(hist[a][e].calls, RequestsPerHour)

\* the 51st call of a window has been refused after 50 admissions
RateLimitWindowReached ==
    \E h \in DOMAIN pc :
        /\ pc[h] = "done"
        /\ result[h] = "rate_limited"
        /\ HistOf(h) = [calls |-> RequestsPerHour + 1, allowed |-> RequestsPerHour]

\* C6: in every interleaving of concurrent requests, a call of
\* check_rate_limit that admits raises the stored count by exactly one, to at
\* most 50, and a call refuses exactly when the stored count is 50: of the
\* requests pending while the count is 49, one is admitted and the others
\* are refused
NoOverAdmission ==
    [][\A h \in DOMAIN pc :
          (pc[h] = "rl" /\ pc'[h] # "rl")
              => LET e == req[h].path
                     before == StoredCount(heap[ses[h]], e)
                     after == StoredCount(heap'[ses[h]], e)
                     reset == heap'[ses[h]].window_start # heap[ses[h]].window_start
                 IN  /\ after <= RequestsPerHour
                     /\ result'[h] = "rate_limited"
                            <=> (~reset /\ before = RequestsPerHour)
                     /\ result'[h] = "rate_limited" => after = before
                     /\ result'[h] # "rate_limited"
                            => after = (IF reset THEN 0 ELSE before) + 1]_vars

\* one request is admitted and in flight, a concurrent one has been refused
\* as the 51st call, and the stored count is 50
ConcurrentAtLimit ==
    \E h1, h2 \in DOMAIN pc :
        /\ pc[h1] = "ai"
        /\ pc[h2] = "done"
        /\ result[h2] = "rate_limited"
        /\ ses[h1] = ses[h2]
        /\ req[h1].path = req[h2].path
        /\ StoredCount(heap[ses[h2]], req[h2].path) = RequestsPerHour
        /\ HistOf(h2).calls = RequestsPerHour + 1

\* a handler whose validation and rate-limit check are over
Checked(h) == pc[h] \in {"ai", "done"} /\ req[h].path \in Endpoints /\ ses[h] # 0

\* C2 as stated: 50 calls of a session are allowed and the 51st is refused,
\* and a call validated more than one hour after the session's creation is
\* allowed with the count reset to 1
EndToEndScenario ==
    /\ RateLimitWindow
    /\ \A h \in DOMAIN pc :
          (Checked(h) /\ vnow[h] > heap[ses[h]].created_at + Hour)
              => /\ result[h] \in {"allowed", "ok", "ai_failed", "bad_request"}
                 /\ StoredCount(heap[ses[h]], req[h].path) = 1

\* C2 amended: 50 calls of a session are allowed and the 51st is refused; a
\* session expires one hour after its creation, and a call validated later
\* than that is refused by get_session and never reaches check_rate_limit
EndToEndExpired ==
    /\ RateLimitWindow
    /\ \A h \in DOMAIN pc :
          (pc[h] \in {"rl", "ai", "done"} /\ req[h].path \in Endpoints /\ ses[h] # 0)
              => /\ heap[ses[h]].expires_at = heap[ses[h]].created_at + Hour
                 /\ vnow[h] > heap[ses[h]].created_at + Hour
                        => pc[h] = "done" /\ result[h] \in {"expired", "error"}

\* the session has served 50 admitted calls and a refused 51st, and a call
\* validated after its expiry has been refused
EndToEndReached ==
    \E h \in DOMAIN pc :
        /\ pc[h] = "done"
        /\ result[h] = "expired"
        /\ req[h].path = "generate_scene"
        /\ vnow[h] > heap[ses[h]].created_at + Hour
        /\ HistOf(h) = [calls |-> RequestsPerHour + 1, allowed |-> RequestsPerHour]

\* the handler has issued its call to the AI service
AiCalled(h) == pc[h] = "ai" \/ (pc[h] = "done" /\ result[h] \in {"ok", "ai_failed"})

\* the handler's request was refused by get_session or by check_rate_limit
Refused(h) ==
    pc[h] = "done"
        /\ result[h] \in {"missing", "not_found", "expired", "error", "rate_limited"}

\* a handler in its AI call serves a gated endpoint for the session of its
\* token, which it validated at a clock value no later than expires_at, and
\* the session has an admitted call of that endpoint in its window
Gate(h) ==
    AiCalled(h)
        => /\ req[h].path \in Endpoints
           /\ ses[h] \in DOMAIN heap
           /\ heap[ses[h]].token = req[h].token
           /\ vnow[h] <= heap[ses[h]].expires_at
           /\ HistOf(h).allowed >= 1
           /\ StoredCount(heap[ses[h]], req[h].path) \in 1..RequestsPerHour

\* C9: a handler of a gated endpoint issues the call to the AI service only
\* in the step in which check_rate_limit admits its request (the count is
\* consumed), which follows only the step in which get_session found the
\* request's token stored and not expired; a request refused by either never
\* issues the call
GateOrdering ==
    [][\A h \in DOMAIN pc :
          /\ (pc[h] # "ai" /\ pc'[h] = "ai")
                => /\ pc[h] = "rl"
                   /\ req'[h] = req[h] /\ ses'[h] = ses[h]
                   /\ result'[h] = "allowed"
                   /\ LET e == req[h].path
                          before == StoredCount(heap[ses[h]], e)
                          after == StoredCount(heap'[ses[h]], e)
                      IN  \/ before < RequestsPerHour /\ after = before + 1
                          \/ /\ heap'[ses[h]].window_start # heap[ses[h]].window_start
                             /\ after = 1
          /\ (pc[h] # "rl" /\ pc'[h] = "rl")
                => /\ pc[h] = "g2"
                   /\ req'[h] = req[h] /\ ses'[h] = ses[h]
                   /\ req[h].path \in Endpoints
                   /\ req[h].token \in DOMAIN sessions
                   /\ ses[h] = sessions[req[h].token]
                   /\ now <= heap[ses[h]].expires_at
          /\ (~AiCalled(h) /\ AiCalled(h)') => pc'[h] = "ai"
          /\ Refused(h) => ~AiCalled(h)'
          /\ Gate(h)']_vars

\* a request has been validated at the last valid instant, admitted and
\* answered by the AI service
GateOrderingReached ==
    \E h \in DOMAIN pc :
        /\ pc[h] = "done"
        /\ result[h] = "ok"
        /\ req[h].path = "validate_challenge"
        /\ vnow[h] = heap[ses[h]].expires_at

\* C7: when get_session, having found a token stored, tests its expiry at a
\* clock value up to expires_at, it returns the session and leaves the store
\* as it is; at a later clock value it answers Expired and the token is not
\* in the store afterwards; a lookup of a token that is not stored answers
\* NotFound, and a removed token never returns to the store
TTLCorrect ==
    [][/\ \A h \in DOMAIN pc :
            (pc[h] = "g2" /\ pc'[h] # "g2")
                => IF now <= heap[ses[h]].expires_at
                   THEN /\ pc'[h] = "rl"
                        /\ req[h].token \in DOMAIN sessions
                        /\ ses'[h] = sessions[req[h].token]
                        /\ sessions' = sessions
                   ELSE /\ pc'[h] = "done"
                        /\ result'[h] = "expired"
                        /\ req[h].token \notin DOMAIN sessions'
       /\ \A h \in DOMAIN pc :
            (pc[h] = "next" /\ pc'[h] \in {"g2", "done"} /\ req[h].token # 0
                 /\ req[h].token \notin DOMAIN sessions)
                => pc'[h] = "done" /\ result'[h] = "not_found"
       /\ \A t \in used : t \notin DOMAIN sessions => t \notin DOMAIN sessions'
      ]_vars

\* C8: when a tick of the cleanup thread completes, every token it found
\* expired is absent from the store and from every index entry; the scan
\* visits every stored token and finds it expired exactly when its
\* expires_at is before the clock value the tick read; and the step that
\* finds a token expired takes it out of the entry of the session's
\* address, deletes that entry when no token is left in it, and leaves the
\* entries of the other addresses as they are
ReaperConsistent ==
    [][/\ (rpc = "delete" /\ rpc' = "sleep")
            => \A i \in 1..Len(r_expired) :
                  /\ r_expired[i] \notin DOMAIN sessions'
                  /\ \A A \in DOMAIN ip_sessions' :
                        ~InList(ip_sessions'[A], r_expired[i])
       /\ (rpc = "scan" /\ rpc' = "scan" /\ r_pos' # r_pos)
            => /\ r_pos' = SetMin({t \in DOMAIN sessions : t > r_pos})
               /\ (r_now > heap[sessions[r_pos']].expires_at)
                     <=> (r_expired' = Append(r_expired, r_pos'))
               /\ (r_now <= heap[sessions[r_pos']].expires_at)
                     <=> (r_expired' = r_expired /\ ip_sessions' = ip_sessions)
       /\ (rpc = "scan" /\ rpc' \in {"delete", "sleep"})
            => \A t \in DOMAIN sessions : t <= r_pos
       /\ (rpc = "scan" /\ Len(r_expired') > Len(r_expired))
            => LET token == r_expired'[Len(r_expired')]
                   A == heap[sessions[token]].ip
               IN  /\ r_now > heap[sessions[token]].expires_at
                   /\ ~InList(Get(ip_sessions', A, <<>>), token)
                   /\ A \in DOMAIN ip_sessions' => ip_sessions'[A] # <<>>
                   /\ IndexTokens(A) \subseteq {token} => A \notin DOMAIN ip_sessions'
                   /\ \A B \in AllAddresses \ {A} :
                         Get(ip_sessions', B, <<>>) = Get(ip_sessions, B, <<>>)
      ]_vars

\* a tick has found the only session of address a and a session of address
\* b expired, has deleted both index entries and the first token
ReaperReached ==
    /\ rpc = "delete"
    /\ Len(r_expired) = 2
    /\ r_del = 1
    /\ r_expired[1] \notin DOMAIN sessions
    /\ r_expired[2] \in DOMAIN sessions
    /\ heap[sessions[r_expired[2]]].ip = "b"
    /\ DOMAIN ip_sessions = {}

\* C11: check_rate_limit resets the session's window (window_start = now,
\* every count zero before the call is counted) exactly when
\* now - window_start >= 1h, the boundary included, and the call made at the
\* reset is admitted with count 1
WindowResetCondition ==
    [][\A h \in DOMAIN pc :
          (pc[h] = "rl" /\ pc'[h] # "rl")
              => LET before == heap[ses[h]]
                     after == heap'[ses[h]]
                     e == req[h].path
                 IN  IF now - before.window_start >= Hour
                     THEN /\ after.window_start = now
                          /\ result'[h] # "rate_limited"
                          /\ StoredCount(after, e) = 1
                          /\ \A o \in Endpoints \ {e} : StoredCount(after, o) = 0
                     ELSE after.window_start = before.window_start]_vars

\* the stored sessions of an address that have not expired
LiveTokens(A) ==
    {t \in StoreTokens(A) : now <= heap[sessions[t]].expires_at}

\* C12: the cap check refuses a start-session request of an address exactly
\* when the address has 3 or more live sessions (now <= expires_at): expired
\* sessions that are still stored or listed do not count
CanCreateLive ==
    [][\A h \in DOMAIN pc :
          (pc[h] = "idle" /\ pc'[h] # "idle" /\ req'[h].path = StartPath)
              => (result'[h] = "ip_quota"
                     <=> Cardinality(LiveTokens(req'[h].ip)) >= MaxSessionsPerIp)]_vars

\* C13: whenever a request handler reads the index during a tick of the
\* cleanup thread (the cap check of a start-session request), every token the
\* tick has found expired is either in the store and the index or in
\* neither
ReaperUnit ==
    [][\A h \in DOMAIN pc :
          (pc[h] = "idle" /\ pc'[h] # "idle" /\ req'[h].path = StartPath
               /\ rpc \in {"scan", "delete"})
              => \A i \in 1..Len(r_expired) :
                    (r_expired[i] \in DOMAIN sessions)
                        <=> (\E A \in AllAddresses : r_expired[i] \in IndexTokens(A))]_vars

\* C14: removing a token that the other party has already removed is a
\* no-op: the validation of an expired token never ends in an internal
\* error, and the cleanup thread's loop of deletions never ends the thread
RemovalIdempotent ==
    [][/\ rpc = "delete" => rpc' # "dead"
       /\ \A h \in DOMAIN pc :
             (pc[h] = "g2" /\ pc'[h] # "g2") => result'[h] # "error"]_vars

\* C15: the cleanup thread takes ticks forever, and every stored session
\* whose expires_at has passed is eventually absent from the store and from
\* every index entry
EventualEviction ==
    /\ []<>(rpc = "scan")
    /\ \A t \in Tokens :
          (t \in DOMAIN sessions /\ now > heap[sessions[t]].expires_at)
              ~> (t \notin DOMAIN sessions
                     /\ \A A \in AllAddresses : t \notin IndexTokens(A))

\* C16: a session's expires_at and created_at never change and a stored
\* token stays bound to the same session; the clock never goes back, a
\* validation returns a session only at a clock value up to its expires_at,
\* and a token that has left the store (after an Expired answer or a
\* cleanup) never returns to it: Active -> Expired -> Removed, one way
OneWayLifecycle ==
    [][/\ now' >= now
       /\ \A a \in DOMAIN heap \cap DOMAIN heap' :
             /\ heap'[a].expires_at = heap[a].expires_at
             /\ heap'[a].created_at = heap[a].created_at
             /\ heap'[a].token = heap[a].token
       /\ \A t \in DOMAIN sessions \cap DOMAIN sessions' : sessions'[t] = sessions[t]
       /\ \A t \in used : t \notin DOMAIN sessions => t \notin DOMAIN sessions'
       /\ \A h \in DOMAIN pc :
             /\ (pc[h] = "g2" /\ pc'[h] = "rl")
                   => /\ now <= heap[ses[h]].expires_at
                      /\ req[h].token \in DOMAIN sessions
             /\ (pc[h] = "g2" /\ result'[h] = "expired")
                   => req[h].token \notin DOMAIN sessions'
      ]_vars

\* a token was answered Expired and removed at a validation, and a later
\* validation of it has been answered NotFound
LifecycleReached ==
    \E h \in DOMAIN pc :
        /\ pc[h] = "done"
        /\ result[h] = "not_found"
        /\ req[h].token \in used
        /\ req[h].token \notin DOMAIN sessions
        /\ rpc = "sleep"
        /\ \E A \in AllAddresses : req[h].token \in IndexTokens(A)

\* C17: a call of check_rate_limit that refuses leaves the session object as
\* it was (window_start, every count, expires_at), and leaves the store and
\* the index as they were: the session stays stored
LimitExceededPure ==
    [][\A h \in DOMAIN pc :
          (pc[h] = "rl" /\ result'[h] = "rate_limited")
              => /\ heap'[ses[h]] = heap[ses[h]]
                 /\ sessions' = sessions
                 /\ ip_sessions' = ip_sessions
                 /\ ses'[h] = ses[h]]_vars

\* the session has been refused twice in one window, is still stored and
\* still has the count of 50
RefusedTwiceReached ==
    \E h \in DOMAIN pc :
        /\ pc[h] = "done"
        /\ result[h] = "rate_limited"
        /\ HistOf(h) = [calls |-> RequestsPerHour + 2, allowed |-> RequestsPerHour]
        /\ req[h].token \in DOMAIN sessions
        /\ sessions[req[h].token] = ses[h]
        /\ StoredCount(heap[ses[h]], req[h].path) = RequestsPerHour

\* C20: a call of check_rate_limit for session S and endpoint O leaves the
\* store, the index and every other session object as they were, and leaves
\* S's token, ip, created_at and expires_at as they were; when it does not
\* reset the window it leaves window_start and the counts of S's other
\* endpoints as they were
RateLimitFrame ==
    [][\A h \in DOMAIN pc :
          (pc[h] = "rl" /\ pc'[h] # "rl")
              => LET a == ses[h]
                     e == req[h].path
                     before == heap[a]
                     after == heap'[a]
                 IN  /\ sessions' = sessions
                     /\ ip_sessions' = ip_sessions
                     /\ DOMAIN heap' = DOMAIN heap
                     /\ \A b \in DOMAIN heap \ {a} : heap'[b] = heap[b]
                     /\ after.token = before.token
                     /\ after.ip = before.ip
                     /\ after.created_at = before.created_at
                     /\ after.expires_at = before.expires_at
                     /\ after.window_start = before.window_start
                           => \A k \in (DOMAIN before.request_counts
                                          \cup DOMAIN after.request_counts)
                                              \ {CountKey(e)} :
                                 Get(after.request_counts, k, 0)
                                     = Get(before.request_counts, k, 0)
                     /\ after.window_start # before.window_start
                           => /\ after.window_start = now
                              /\ \A o \in Endpoints \ {e} : StoredCount(after, o) = 0]_vars

\* two sessions are stored; one has served a call of analyze_scene and then
\* a call of generate_scene in the same window: its two counts are 1 and the
\* other session still has the one count it had
RateLimitFrameReached ==
    \E h \in DOMAIN pc :
        /\ pc[h] = "ai"
        /\ req[h].path = "generate_scene"
        /\ StoredCount(heap[ses[h]], "generate_scene") = 1
        /\ StoredCount(heap[ses[h]], "analyze_scene") = 1
        /\ \E t \in DOMAIN sessions :
              /\ sessions[t] # ses[h]
              /\ StoredCount(heap[sessions[t]], "generate_scene") = 1
              /\ StoredCount(heap[sessions[t]], "analyze_scene") = 0

\* C19: over the life of a session, the calls of an endpoint that pass
\* get_session and are then admitted by check_rate_limit number at most 50:
\* in a session's first window the stored count is the number admitted so
\* far, so a call admitted then is at most the 50th
LifetimeCap ==
    [][\A h \in DOMAIN pc :
          (pc[h] = "rl" /\ pc'[h] # "rl" /\ result'[h] # "rate_limited"
               /\ heap[ses[h]].window_start = heap[ses[h]].created_at)
              => /\ StoredCount(heap[ses[h]], req[h].path) = HistOf(h).allowed
                 /\ StoredCount(heap[ses[h]], req[h].path) + 1 <= RequestsPerHour]_vars

\* no handler is between the store of line 182 and the append of line 187,
\* every stored token is listed under its address, and every stored count
\* equals the number of calls admitted in the window
Settled ==
    (\A h \in DOMAIN pc : pc[h] \notin {"s2", "s3"})
        => /\ \A A \in AllAddresses : StoreTokens(A) \subseteq IndexTokens(A)
           /\ \A a \in DOMAIN hist : \A e \in Endpoints :
                 StoredCount(heap[a], e) = hist[a][e].allowed

\* C18: a request is cancelled only where it is suspended: before its
\* handler has run (it has changed nothing) or in the AI call (its rate
\* check is complete and counted); the cancellation changes neither the
\* store nor the index nor a session, and no handler is abandoned between
\* the statements of its check-and-mutate; so no state has a stored token
\* missing from the index or a count that differs from the admitted calls
CancellationAtomic ==
    [][/\ \A h \in DOMAIN pc :
             /\ (pc[h] # "idle" /\ pc[h] # "done" /\ pc'[h] = "idle")
                   => /\ pc[h] \in {"next", "ai"}
                      /\ pc[h] = "next" => ses[h] = 0
                      /\ pc[h] = "ai"
                            => /\ result[h] = "allowed"
                               /\ StoredCount(heap[ses[h]], req[h].path) >= 1
                      /\ sessions' = sessions
                      /\ ip_sessions' = ip_sessions
                      /\ \A a \in DOMAIN heap' : heap'[a] = heap[a]
                      /\ \A t \in DOMAIN sessions : sessions[t] \in DOMAIN heap'
       /\ Settled'
      ]_vars

\* the only request that reached its AI call was cancelled there: its
\* admitted call stays counted in the stored session, and no handler is
\* active
CancelledReached ==
    /\ \A h \in DOMAIN pc : pc[h] = "idle"
    /\ \E t \in DOMAIN sessions :
          /\ StoredCount(heap[sessions[t]], "validate_challenge") = 1
          /\ hist[sessions[t]]["validate_challenge"].allowed = 1
          /\ \E A \in AllAddresses : t \in IndexTokens(A)

====
